---- MODULE Spec2Model ----
(***************************************************************************)
(* CrossProduct puzzle solver (CrossProduct.ipynb): fill_one_row, the      *)
(* generator solutions, and its consumers solve, well_formed and           *)
(* list(solutions(...)), together with table_puzzle.                        *)
(*                                                                         *)
(* solutions is a Python generator: it is modelled as a stack of suspended *)
(* generator frames that advances only while a consumer is inside next().  *)
(* Python ints are unbounded and `/`, numpy.divide work in float64: a     *)
(* number is held as two limbs hi * 2^27 + lo (values below 2^58) with the *)
(* Python type that holds it, and a division that leaves the integers is   *)
(* rounded to the 53-bit mantissa of a float64 as IEEE 754 rounds it       *)
(* (nearest, ties to even).  Of a float that is not an integer the model   *)
(* keeps the integer part and the fact that a fraction is left.            *)
(***************************************************************************)
EXTENDS Integers, Sequences, FiniteSets, TLC

VARIABLES
    puzzle,     \* Puzzle(row_prods, col_prods) passed to the consumers
    table,      \* the table the puzzle was made from (table_puzzle), if any
    seed,       \* fixes the iteration order of Python sets of rows in this run
    stack,      \* generator frames of the live solutions(...) call, root first
    exhausted,  \* the root generator has finished (StopIteration)
    got,        \* results of the next() calls of the operation in progress
    op,         \* consumer in progress: "idle", "solve", "well_formed", "list"
    ret,        \* value returned by the last finished consumer
    prev        \* the previous call: what its generator yielded, what it returned

vars == <<puzzle, table, seed, stack, exhausted, got, op, ret, prev>>

(***************************************************************************)
(* Bounds of the model.                                                    *)
(***************************************************************************)
MaxRows == 2
MaxCols == 2
Targets == {0, 1, 2, 6}
Seeds == {1, 9}
MaxTableCells == 4
Cells == {1, 2, 6}
MaxAgainRows == 2
MaxAgainCols == 2
AgainTargets == {1, 2, 4}
MaxLiveRows == 2
MaxLiveCols == 2
LiveTargets == {0, 2}
MaxWideRows == 17
WideLast == {5, 9}
WideOffsets == {0, 1}
MaxFillPower == 8
MaxSwapRows == 2
MaxSwapCols == 2
SwapTargets == {1, 2, 4}
MaxTallRows == 19
MaxFillCols == 9

(***************************************************************************)
(* Data types (cell 1).                                                    *)
(***************************************************************************)
\* range(2, 10)
Digits_From2 == 2..9

\* range(1, 10)
Digits == 1..9

Puzzle(row_prods, col_prods) == [row_prods |-> row_prods, col_prods |-> col_prods]

None == [some |-> FALSE, val |-> <<>>]
Some(t) == [some |-> TRUE, val |-> t]

SeqsUpTo(S, n) == UNION { [1..k -> S] : k \in 0..n }

(***************************************************************************)
(* Numbers.  kind is the Python type: "int", "int64" (numpy.prod of ints)  *)
(* or "float64" (the result of `/` and of numpy.divide).                   *)
(***************************************************************************)
Base == 2^27

\* bits of the mantissa of a float64
MantissaBits == 53

\* a Python int below 2^27
FromInt(n) == [kind |-> "int", hi |-> 0, lo |-> n, frac |-> FALSE]

Float(hi, lo, frac) == [kind |-> "float64", hi |-> hi, lo |-> lo, frac |-> frac]

\* the float hi * 2^27 + s, where adding to the low limb may have carried
Carry(hi, s) == Float(hi + s \div Base, s % Base, FALSE)

\* divmod(x, d) of the integer part of x by a digit d
DivMod(x, d) ==
    LET w == (x.hi % d) * Base + x.lo
    IN [hi |-> x.hi \div d, lo |-> w \div d, rem |-> w % d]

\* x * d for a digit d
MulDigit(x, d) ==
    LET w == x.lo * d
    IN [x EXCEPT !.hi = x.hi * d + w \div Base, !.lo = w % Base]

\* number of bits of q, for q >= 2^27
BitLength(q) == 27 + CHOOSE b \in 1..31 : q.hi \div 2^(b - 1) = 1

\* the float64 nearest to x / d (ties to even), x an integer below 2^58
RoundQuotient(x, d) ==
    LET q == DivMod(x, d)
        L == BitLength(q)
        \* q < 2^53: k bits of the mantissa are left for the fraction rem / d
        k == MantissaBits - L
        fl == (q.rem * 2^k) \div d
        rest == (q.rem * 2^k) % d
        oddBelow == IF k = 0 THEN (q.lo + fl) % 2 = 1 ELSE fl % 2 = 1
        n == IF 2 * rest > d \/ (2 * rest = d /\ oddBelow) THEN fl + 1 ELSE fl
        \* q >= 2^53: the last L - 53 bits of q are rounded away
        u == 2^(L - MantissaBits)
        low == q.lo % u
        oddAbove == ((q.lo - low) \div u) % 2 = 1
        up == 2 * low > u \/ (2 * low = u /\ (q.rem # 0 \/ oddAbove))
    IN IF x.frac THEN Float(q.hi, q.lo, TRUE)
       \* x < 2^27: a single limb
       ELSE IF x.hi = 0 THEN Float(0, x.lo \div d, x.lo % d # 0)
       \* q < 2^50: four or more fraction bits, a remainder is never rounded away
       ELSE IF q.hi < 2^23 THEN Float(q.hi, q.lo, q.rem # 0)
       ELSE IF L <= MantissaBits
            THEN IF n = 0 THEN Float(q.hi, q.lo, FALSE)
                 ELSE IF n = 2^k THEN Carry(q.hi, q.lo + 1)
                 ELSE Float(q.hi, q.lo, TRUE)
            ELSE Carry(q.hi, q.lo - low + (IF up THEN u ELSE 0))

\* x / d for a digit d: an int divided by an int is rounded once, from the
\* exact quotient; a numpy.int64 is converted to float64 first
TrueDiv(x, d) ==
    IF x.kind = "int" THEN RoundQuotient(x, d)
    ELSE RoundQuotient(RoundQuotient(x, 1), d)

\* x // d for a digit d, x an int or a numpy.int64
FloorDiv(x, d) ==
    IF x.hi = 0 THEN [x EXCEPT !.lo = x.lo \div d]
    ELSE [x EXCEPT !.hi = DivMod(x, d).hi, !.lo = DivMod(x, d).lo]

\* float.is_integer()
is_integer(x) == ~x.frac

\* int(c): the fraction is cut off
int(c) == [c EXCEPT !.kind = "int", !.frac = FALSE]

\* a == b on numbers of any kind
Equal(a, b) == a.hi = b.hi /\ a.lo = b.lo /\ a.frac = b.frac

\* c == int(c)
EqualsItsInt(c) == Equal(c, int(c))

\* c <= 1 written where c == 1 belongs
IsOne_AtMostOne(c) == c.hi = 0 /\ (c.lo = 0 \/ Equal(c, FromInt(1)))

\* c == 1
IsOne(c) == Equal(c, FromInt(1))

\* numpy.divide(col_prods, row1), elementwise, as a list: both arrays are
\* converted to float64 before the division
divide(col_prods, row1) ==
    [j \in 1..Len(col_prods) |-> RoundQuotient(RoundQuotient(col_prods[j], 1), row1[j])]

\* numpy.prod of a tuple of digits: an int64, and the float 1.0 for ()
RECURSIVE prod(_)
prod(s) ==
    IF s = <<>> THEN Float(0, 1, FALSE)
    ELSE IF Len(s) = 1 THEN [kind |-> "int64", hi |-> 0, lo |-> s[1], frac |-> FALSE]
    ELSE MulDigit(prod(SubSeq(s, 1, Len(s) - 1)), s[Len(s)])

(***************************************************************************)
(* fill_one_row (cell 3).  row_prod and col_prods are numbers; the result  *)
(* is a set of rows of digits.                                             *)
(***************************************************************************)
RECURSIVE fill_one_row(_, _)
fill_one_row(row_prod, col_prods) ==
    IF col_prods = <<>> /\ Equal(row_prod, FromInt(1)) THEN {<<>>}
    ELSE IF col_prods = <<>> /\ ~Equal(row_prod, FromInt(1)) THEN {}
    \* d[1] is the digit d, d[2] the value of row_prod // d
    ELSE UNION { { <<d[1]>> \o rest : rest \in fill_one_row(d[2], Tail(col_prods)) } :
                 d \in { <<e, FloorDiv(row_prod, e)>> :
                            e \in { e \in Digits : /\ is_integer(TrueDiv(row_prod, e))
                                                   /\ is_integer(TrueDiv(col_prods[1], e)) } } }

\* depth of the recursion of fill_one_row below its outermost call
RECURSIVE fill_one_row_depth(_, _)
fill_one_row_depth(row_prod, col_prods) ==
    IF col_prods = <<>> THEN 0
    ELSE LET ds == { e \in Digits : /\ is_integer(TrueDiv(row_prod, e))
                                    /\ is_integer(TrueDiv(col_prods[1], e)) }
             below == { fill_one_row_depth(r, Tail(col_prods)) :
                          r \in { FloorDiv(row_prod, d) : d \in ds } }
         IN IF ds = {} THEN 0
            ELSE 1 + (CHOOSE m \in below : \A n \in below : n <= m)

(***************************************************************************)
(* Iteration order of a Python set of rows.  The order is a fixed function *)
(* of the set for one interpreter (tuple-of-int hashes are not             *)
(* randomised); which function is left open: rows are ordered              *)
(* lexicographically by the rank (d * seed) % 10 of their digits.          *)
(***************************************************************************)
Rank(d, s) == (d * s) % 10

RECURSIVE RowLess(_, _, _)
RowLess(a, b, s) ==
    IF a = <<>> \/ b = <<>> THEN FALSE
    ELSE IF a[1] = b[1] THEN RowLess(Tail(a), Tail(b), s)
    ELSE Rank(a[1], s) < Rank(b[1], s)

RECURSIVE IterOrder(_, _)
IterOrder(S, s) ==
    IF S = {} THEN <<>>
    ELSE LET m == CHOOSE x \in S : \A y \in S \ {x} : RowLess(x, y, s)
         IN <<m>> \o IterOrder(S \ {m}, s)

(***************************************************************************)
(* table_puzzle (cell 13).                                                 *)
(***************************************************************************)
transpose(t) ==
    LET ncols == IF t = <<>> THEN 0 ELSE Len(t[1])
    IN [j \in 1..ncols |-> [i \in 1..Len(t) |-> t[i][j]]]

table_puzzle(t) ==
    Puzzle([r \in 1..Len(t) |-> prod(t[r])],
           [c \in 1..Len(transpose(t)) |-> prod(transpose(t)[c])])

(***************************************************************************)
(* Generator frames of solutions (cell 9).                                 *)
(*   pc = "start"   : generator object created, body not yet run           *)
(*   pc = "iter"    : inside the generator expression; rows is the result  *)
(*                    of fill_one_row in iteration order, rows[i] is row1  *)
(*   pc = "yielded" : suspended at `yield []`                              *)
(***************************************************************************)
NewFrame(row_prods, col_prods) ==
    [row_prods |-> row_prods, col_prods |-> col_prods, rows |-> <<>>, i |-> 0, pc |-> "start"]

\* one generator object kept and handed out again instead of a fresh one
solutions_Cached(p) ==
    IF stack # <<>> THEN stack
    ELSE <<NewFrame(p.row_prods, p.col_prods)>>

\* solutions(puzzle): a fresh generator on the puzzle's own targets
solutions(p) ==
    <<NewFrame(p.row_prods, p.col_prods)>>

top == stack[Len(stack)]

\* a generator that runs on its own, whether or not a consumer waits
Running_Eager == ~exhausted /\ stack # <<>>

\* the generator runs only while a consumer waits inside next()
Running == op # "idle" /\ ~exhausted /\ stack # <<>>

\* [row1, *rows] assembled along the chain of `yield from`
YieldedTable == [k \in 1..(Len(stack) - 1) |-> stack[k].rows[stack[k].i]]

\* the tables among the results of next()
RECURSIVE Tables(_)
Tables(g) ==
    IF g = <<>> THEN <<>>
    ELSE IF g[1].some THEN <<g[1].val>> \o Tables(Tail(g))
    ELSE Tables(Tail(g))

NoRet == [op |-> "none", val |-> None, flag |-> FALSE, all |-> <<>>]

(***************************************************************************)
(* Consumers.                                                              *)
(***************************************************************************)
\* next(solutions(puzzle), None) or None
solve_OrNone(first) == IF first.val = <<>> THEN None ELSE first

\* solve: next(solutions(puzzle), None)
solve(first) == first

\* well_formed: first is not None and second is None
well_formed(first, second) == first.some /\ ~second.some

\* the consumer receives table t from next()
OnYield(t) ==
    LET g == Append(got, Some(t)) IN
    /\ got' = g
    /\ CASE op = "solve" ->
              /\ ret' = [NoRet EXCEPT !.op = "solve", !.val = solve(g[1])]
              /\ op' = "idle"
         [] op = "well_formed" /\ Len(g) = 2 ->
              /\ ret' = [NoRet EXCEPT !.op = "well_formed", !.flag = well_formed(g[1], g[2])]
              /\ op' = "idle"
         [] OTHER -> UNCHANGED <<ret, op>>

\* the root generator finished: next(S, None) gives None, now and on any
\* later call; list(...) ends
OnStop ==
    CASE op = "solve" ->
           /\ got' = <<None>>
           /\ ret' = [NoRet EXCEPT !.op = "solve", !.val = solve(None)]
           /\ op' = "idle"
      [] op = "well_formed" ->
           LET g == IF got = <<>> THEN <<None, None>> ELSE Append(got, None) IN
           /\ got' = g
           /\ ret' = [NoRet EXCEPT !.op = "well_formed", !.flag = well_formed(g[1], g[2])]
           /\ op' = "idle"
      [] OTHER ->
           /\ got' = got
           /\ ret' = [NoRet EXCEPT !.op = "list", !.all = Tables(got)]
           /\ op' = "idle"

\* a consumer is called on the puzzle and makes its generator
Call(name) ==
    /\ op = "idle"
    /\ ret.op = "none"
    /\ op' = name
    /\ stack' = solutions(puzzle)
    /\ UNCHANGED <<puzzle, table, seed, exhausted, got, ret, prev>>

CallSolve == Call("solve")
CallWellFormed == Call("well_formed")
CallList == Call("list")

\* a further call on the same puzzle, after an earlier consumer returned:
\* its generator is abandoned wherever it stopped, and a fresh one is made
Again(name) ==
    /\ op = "idle"
    /\ ret.op # "none"
    /\ op' = name
    /\ stack' = solutions(puzzle)
    /\ exhausted' = FALSE
    /\ got' = <<>>
    /\ ret' = NoRet
    /\ prev' = [called |-> TRUE, out |-> Tables(got), exhausted |-> exhausted,
                 swapped |-> FALSE, ret |-> ret]
    /\ UNCHANGED <<puzzle, table, seed>>

AgainSolve == Again("solve")
AgainWellFormed == Again("well_formed")
AgainList == Again("list")

\* after a consumer returned on Puzzle(R, C), the same consumer is called
\* on Puzzle(C, R)
Swapped(name) ==
    /\ op = "idle"
    /\ ret.op = name
    /\ ~prev.called
    /\ op' = name
    /\ puzzle' = Puzzle(puzzle.col_prods, puzzle.row_prods)
    /\ stack' = solutions(Puzzle(puzzle.col_prods, puzzle.row_prods))
    /\ exhausted' = FALSE
    /\ got' = <<>>
    /\ ret' = NoRet
    /\ prev' = [called |-> TRUE, out |-> Tables(got), exhausted |-> exhausted,
                 swapped |-> TRUE, ret |-> ret]
    /\ UNCHANGED <<table, seed>>

SwappedWellFormed == Swapped("well_formed")
SwappedList == Swapped("list")

(***************************************************************************)
(* Steps of the generator.                                                 *)
(***************************************************************************)
\* the end of the root generator never reaches the consumer
Return_NoStop ==
    IF Len(stack) = 1
    THEN /\ stack' = <<>>
         /\ exhausted' = TRUE
         /\ UNCHANGED <<got, op, ret>>
    ELSE /\ stack' = SubSeq(stack, 1, Len(stack) - 1)
         /\ UNCHANGED <<exhausted, got, op, ret>>

\* the top generator returns: its parent moves on, or the root is exhausted
Return ==
    IF Len(stack) = 1
    THEN /\ stack' = <<>>
         /\ exhausted' = TRUE
         /\ OnStop
    ELSE /\ stack' = SubSeq(stack, 1, Len(stack) - 1)
         /\ UNCHANGED <<exhausted, got, op, ret>>

\* the body of a new generator runs up to its first yield, its first
\* inner generator, or its end:
\*   if not row_prods and all(c == 1 for c in col_prods): yield []
\*   elif row_prods and all(c == int(c) for c in col_prods):
\*       ... for row1 in fill_one_row(row_prods[0], col_prods) ...
\*   (otherwise the generator yields nothing)
Begin ==
    /\ Running
    /\ top.pc = "start"
    /\ IF top.row_prods = <<>> /\ \A j \in 1..Len(top.col_prods) : IsOne(top.col_prods[j])
       THEN /\ stack' = [stack EXCEPT ![Len(stack)].pc = "yielded"]
            /\ OnYield(YieldedTable)
            /\ UNCHANGED exhausted
       ELSE IF top.row_prods # <<>> /\ \A j \in 1..Len(top.col_prods) : EqualsItsInt(top.col_prods[j])
       THEN /\ stack' = [stack EXCEPT ![Len(stack)] =
                           [@ EXCEPT !.rows = IterOrder(fill_one_row(top.row_prods[1], top.col_prods), seed),
                                     !.i = 0,
                                     !.pc = "iter"]]
            /\ UNCHANGED <<exhausted, got, op, ret>>
       ELSE Return
    /\ UNCHANGED <<puzzle, table, seed, prev>>

\* next row1: for rows in solutions(Puzzle(row_prods[1:], list(divide(col_prods, row1))))
TryRow ==
    /\ Running
    /\ top.pc = "iter"
    /\ top.i < Len(top.rows)
    /\ stack' = Append([stack EXCEPT ![Len(stack)].i = @ + 1],
                       NewFrame(Tail(top.row_prods), divide(top.col_prods, top.rows[top.i + 1])))
    /\ UNCHANGED <<puzzle, table, seed, exhausted, got, op, ret, prev>>

\* the rows of fill_one_row are used up
RowsDone ==
    /\ Running
    /\ top.pc = "iter"
    /\ top.i = Len(top.rows)
    /\ Return
    /\ UNCHANGED <<puzzle, table, seed, prev>>

\* resumed after `yield []`: the body ends
Resume ==
    /\ Running
    /\ top.pc = "yielded"
    /\ Return
    /\ UNCHANGED <<puzzle, table, seed, prev>>

GenStep == Begin \/ TryRow \/ RowsDone \/ Resume

(***************************************************************************)
(* Specifications.                                                         *)
(***************************************************************************)
\* a list of Python ints
Ints(q) == [k \in 1..Len(q) |-> FromInt(q[k])]

Puzzles ==
    { Puzzle(Ints(r), Ints(c)) : r \in SeqsUpTo(Targets, MaxRows), c \in SeqsUpTo(Targets, MaxCols) }

Start ==
    /\ seed \in Seeds
    /\ stack = <<>>
    /\ exhausted = FALSE
    /\ got = <<>>
    /\ op = "idle"
    /\ ret = NoRet
    /\ prev = [called |-> FALSE, out |-> <<>>, exhausted |-> FALSE, swapped |-> FALSE, ret |-> NoRet]

\* a puzzle given as literal data
Init ==
    /\ puzzle \in Puzzles
    /\ table = None
    /\ Start

Next ==
    \/ CallSolve
    \/ CallWellFormed
    \/ CallList
    \/ Begin
    \/ TryRow
    \/ RowsDone
    \/ Resume

Spec == Init /\ [][Next]_vars

(***************************************************************************)
(* The same program under the scheduling of the interpreter, which keeps   *)
(* running a generator whose consumer waits in next().                     *)
(***************************************************************************)
LivePuzzles ==
    { Puzzle(Ints(r), Ints(c)) : r \in SeqsUpTo(LiveTargets, MaxLiveRows),
                     c \in SeqsUpTo(LiveTargets, MaxLiveCols) }

InitLive ==
    /\ puzzle \in LivePuzzles
    /\ table = None
    /\ Start

FairSpec == InitLive /\ [][Next]_vars /\ WF_vars(GenStep)

(***************************************************************************)
(* A session that calls the consumers again and again on one puzzle.       *)
(***************************************************************************)
AgainPuzzles ==
    { Puzzle(Ints(r), Ints(c)) : r \in SeqsUpTo(AgainTargets, MaxAgainRows),
                     c \in SeqsUpTo(AgainTargets, MaxAgainCols) }

InitAgain ==
    /\ puzzle \in AgainPuzzles
    /\ table = None
    /\ Start

NextAgain ==
    \/ Next
    \/ AgainSolve
    \/ AgainWellFormed
    \/ AgainList

SpecAgain == InitAgain /\ [][NextAgain]_vars

(***************************************************************************)
(* A puzzle made from a table of digits by table_puzzle.                   *)
(***************************************************************************)
TableShapes ==
    { sh \in (0..MaxTableCells) \X (0..MaxTableCells) : sh[1] * sh[2] <= MaxTableCells }

TablesOfDigits ==
    UNION { [1..sh[1] -> [1..sh[2] -> Cells]] : sh \in TableShapes }

InitTable ==
    /\ \E t \in TablesOfDigits :
          /\ table = Some(t)
          /\ puzzle = table_puzzle(t)
    /\ Start

SpecTable == InitTable /\ [][Next]_vars

(***************************************************************************)
(* The notebook's example of fill_one_row: a single row whose target is a  *)
(* power of 7, against column targets that are all 7.                      *)
(***************************************************************************)
FillPuzzles ==
    { Puzzle(<<FromInt(7^k)>>, [j \in 1..n |-> FromInt(7)]) :
        k \in (MaxFillPower - 1)..MaxFillPower, n \in (MaxFillCols - 2)..MaxFillCols }

InitFill ==
    /\ puzzle \in FillPuzzles
    /\ table = None
    /\ Start

SpecFill == InitFill /\ [][Next]_vars

(***************************************************************************)
(* What a solution is, stated without the search, in exact integers: an    *)
(* integer is the pair <<hi, lo>> of its limbs.                            *)
(***************************************************************************)
DigitRange == 1..9

\* the integer a number without fraction stands for
Exact(x) == <<x.hi, x.lo>>

Times(v, d) == <<v[1] * d + (v[2] * d) \div Base, (v[2] * d) % Base>>

Plus(v, e) == <<v[1] + (v[2] + e) \div Base, (v[2] + e) % Base>>

Remainder(v, d) == ((v[1] % d) * Base + v[2]) % d

RECURSIVE Product(_)
Product(s) == IF s = <<>> THEN <<0, 1>> ELSE Times(Product(Tail(s)), s[1])

\* v times every digit of s
RECURSIVE TimesAll(_, _)
TimesAll(v, s) == IF s = <<>> THEN v ELSE TimesAll(Times(v, s[1]), Tail(s))

ColumnOf(t, c) == [r \in 1..Len(t) |-> t[r][c]]

IsSolution(t, p) ==
    /\ Len(t) = Len(p.row_prods)
    /\ \A r \in 1..Len(t) :
          /\ Len(t[r]) = Len(p.col_prods)
          /\ \A c \in 1..Len(t[r]) : t[r][c] \in DigitRange
          /\ Product(t[r]) = Exact(p.row_prods[r])
    /\ \A c \in 1..Len(p.col_prods) : Product(ColumnOf(t, c)) = Exact(p.col_prods[c])

\* the digits a row of product r can hold: each digit of the row divides r,
\* and no digits 1..9 multiply to 0
DigitsDividing(r) ==
    IF Exact(r) = <<0, 0>> THEN {} ELSE { d \in DigitRange : Remainder(Exact(r), d) = 0 }

RowsWithProduct(n, r) == { row \in [1..n -> DigitsDividing(r)] : Product(row) = Exact(r) }

RECURSIVE TablesWithRowProducts(_, _)
TablesWithRowProducts(rs, n) ==
    IF rs = <<>> THEN {<<>>}
    ELSE { <<row>> \o rest : row \in RowsWithProduct(n, rs[1]),
                             rest \in TablesWithRowProducts(Tail(rs), n) }

ValidTables(p) ==
    { t \in TablesWithRowProducts(p.row_prods, Len(p.col_prods)) :
        \A c \in 1..Len(p.col_prods) : Product(ColumnOf(t, c)) = Exact(p.col_prods[c]) }

Range(q) == { q[k] : k \in 1..Len(q) }

(***************************************************************************)
(* Tall puzzles of one column, whose column target passes 2^53: the rows   *)
(* are 9, ..., 9, t; the puzzle is made by table_puzzle from that column,  *)
(* or given as literal data with column target 9 * ... * 9 * t + e.        *)
(***************************************************************************)
WideColumn(n, t) == [i \in 1..n |-> IF i < n THEN <<9>> ELSE <<t>>]

\* the Python int of limbs v
BigInt(v) == [kind |-> "int", hi |-> v[1], lo |-> v[2], frac |-> FALSE]

InitWide ==
    /\ \E n \in 1..MaxWideRows, t \in WideLast :
          \/ /\ table = Some(WideColumn(n, t))
             /\ puzzle = table_puzzle(WideColumn(n, t))
          \/ /\ table = None
             /\ \E e \in WideOffsets :
                   puzzle = Puzzle([i \in 1..n |-> FromInt(WideColumn(n, t)[i][1])],
                                   <<BigInt(Plus(Product(ColumnOf(WideColumn(n, t), 1)), e))>>)
    /\ Start

SpecWide == InitWide /\ [][Next]_vars

(***************************************************************************)
(* A puzzle and then the puzzle with row and column targets exchanged.     *)
(* The targets are positive: small puzzles, and the tall puzzle of one     *)
(* column whose rows are all 7 (one iteration order is enough for it: its  *)
(* sets of rows have at most one row).                                     *)
(***************************************************************************)
SwapPuzzles ==
    { Puzzle(Ints(r), Ints(c)) : r \in SeqsUpTo(SwapTargets, MaxSwapRows),
                                 c \in SeqsUpTo(SwapTargets, MaxSwapCols) }

TallPuzzle ==
    Puzzle([i \in 1..MaxTallRows |-> FromInt(7)],
           <<BigInt(Product([i \in 1..MaxTallRows |-> 7]))>>)

InitSwap ==
    /\ puzzle \in SwapPuzzles \cup {TallPuzzle}
    /\ table = None
    /\ Start
    /\ puzzle = TallPuzzle => seed = 1

NextSwap ==
    \/ Next
    \/ SwappedWellFormed
    \/ SwappedList

SpecSwap == InitSwap /\ [][NextSwap]_vars

\* C1: every table yielded by solutions has len(R) rows of len(C) digits in
\* 1..9, the product of each row is its row target and the product of each
\* column is its column target.
C1_Soundness ==
    /\ \A k \in 1..Len(got) : got[k].some => IsSolution(got[k].val, puzzle)
    /\ ret.op = "solve" /\ ret.val.some => IsSolution(ret.val.val, puzzle)
    /\ \A t \in Range(ret.all) : IsSolution(t, puzzle)

\* C2: every table of digits 1..9 whose row products are R and whose column
\* products are C is among the tables that a fully consumed solutions(R, C)
\* yields.
C2_Completeness ==
    ret.op = "list" => \A t \in ValidTables(puzzle) : t \in Range(ret.all)

\* C3: fill_one_row(row_prod, col_prods) is exactly the set of tuples of
\* len(col_prods) digits 1..9 whose product is row_prod and whose i-th digit
\* evenly divides col_prods[i]; for empty col_prods it is {()} when row_prod
\* is 1 and empty otherwise.
FilledRowsExpected(row_prod, col_prods) ==
    { row \in [1..Len(col_prods) -> DigitsDividing(row_prod)] :
        /\ Product(row) = Exact(row_prod)
        /\ \A i \in 1..Len(col_prods) :
              ~col_prods[i].frac /\ Remainder(Exact(col_prods[i]), row[i]) = 0 }

C3_FillOneRowExact ==
    \A k \in 1..Len(stack) :
        stack[k].pc = "iter" /\ stack[k].i = 0 =>
            /\ Range(stack[k].rows) = FilledRowsExpected(stack[k].row_prods[1], stack[k].col_prods)
            /\ Len(stack[k].rows) = Cardinality(Range(stack[k].rows))
            /\ stack[k].col_prods = <<>> =>
                  stack[k].rows = IF Exact(stack[k].row_prods[1]) = <<0, 1>> THEN << <<>> >> ELSE <<>>

\* C4: solve(puzzle) returns None exactly when solutions(puzzle) yields no
\* table, and otherwise the first table solutions(puzzle) yields; a puzzle
\* with no rows and column target 2 gives None.
C4_SolveIsFirst ==
    /\ ret.op = "solve" /\ prev.called /\ prev.exhausted =>
          ret.val = IF prev.out = <<>> THEN None ELSE Some(prev.out[1])
    /\ ret.op = "solve" /\ puzzle = Puzzle(<<>>, <<FromInt(2)>>) => ret.val = None

C4_Witness ==
    /\ ret.op = "solve"
    /\ prev.called
    /\ prev.exhausted
    /\ Len(prev.out) >= 2
    /\ ret.val = Some(prev.out[1])

\* C5: well_formed(puzzle) is true exactly when the puzzle has exactly one
\* solution table; the puzzle with no rows and column targets all 1 has the
\* one solution [] and is well formed.
C5_WellFormedIffUnique ==
    ret.op = "well_formed" => (ret.flag <=> Cardinality(ValidTables(puzzle)) = 1)

\* C6: for a table T of digits, solve(table_puzzle(T)) returns a table T'
\* (never None) with table_puzzle(T') = table_puzzle(T).
C6_RoundTrip ==
    ret.op = "solve" /\ table.some =>
        /\ ret.val.some
        /\ table_puzzle(ret.val.val) = table_puzzle(table.val)

\* C7: a puzzle with a row target or a column target 0 has no solution:
\* solutions yields no table and solve returns None.
HasZeroTarget(p) == \E x \in Range(p.row_prods) \cup Range(p.col_prods) : Exact(x) = <<0, 0>>

C7_ZeroUnsolvable ==
    HasZeroTarget(puzzle) =>
        /\ Tables(got) = <<>>
        /\ ret.all = <<>>
        /\ ret.op = "solve" => ret.val = None
        /\ ret.op = "well_formed" => ~ret.flag

C7_Witness ==
    /\ ret.op = "solve"
    /\ ret.val = None
    /\ puzzle.row_prods # <<>>
    /\ \A r \in 1..Len(puzzle.row_prods) : Exact(puzzle.row_prods[r]) # <<0, 0>>
    /\ \A j \in 1..Len(puzzle.col_prods) : Exact(puzzle.col_prods[j]) = <<0, 0>>
    /\ Len(puzzle.col_prods) = 2

\* C8: every call finishes: a consumer that was called returns; the stack
\* of solutions generators is never deeper than the number of rows (plus
\* the generator of the empty rest), and fill_one_row never recurses deeper
\* than the number of columns.
DepthBounded ==
    /\ Len(stack) <= Len(puzzle.row_prods) + 1
    /\ \A k \in 1..Len(stack) :
          stack[k].pc = "iter" /\ stack[k].i = 0 =>
              fill_one_row_depth(stack[k].row_prods[1], stack[k].col_prods) <= Len(puzzle.col_prods)

C8_Termination ==
    /\ []DepthBounded
    /\ (op # "idle") ~> (op = "idle" /\ ret.op # "none")

C8_Witness ==
    /\ op = "idle"
    /\ ret.op = "list"
    /\ Len(ret.all) >= 2
    /\ HasZeroTarget(puzzle) = FALSE
    /\ exhausted

\* C9: a fresh call of solutions on the same puzzle yields the same tables
\* in the same order as the call before it, however far that call was
\* consumed; solve returns the same table on every call.
AgreeOnPrefix(a, b) ==
    \A k \in 1..Len(a) : k <= Len(b) => a[k] = b[k]

C9_Deterministic ==
    prev.called =>
        /\ AgreeOnPrefix(Tables(got), prev.out)
        /\ prev.exhausted => Len(Tables(got)) <= Len(prev.out)
        /\ prev.exhausted /\ exhausted => Tables(got) = prev.out
        /\ exhausted /\ ~prev.exhausted => Len(prev.out) <= Len(Tables(got))
        /\ ret.op = "solve" /\ prev.out # <<>> => ret.val = Some(prev.out[1])

C9_Witness ==
    /\ prev.called
    /\ ~prev.exhausted
    /\ Len(prev.out) = 1
    /\ ret.op = "list"
    /\ Len(ret.all) >= 2

\* C10: in the generator reached after committing rows r_1..r_k the row
\* targets are R[k:], and column target j is the integer C[j] divided by
\* r_1[j] * ... * r_k[j]: it depends on the rows committed on this branch
\* only.
CommittedRow(k) == stack[k].rows[stack[k].i]

C10_ColumnTargets ==
    \A k \in 1..Len(stack) :
        /\ stack[k].row_prods = SubSeq(puzzle.row_prods, k, Len(puzzle.row_prods))
        /\ Len(stack[k].col_prods) = Len(puzzle.col_prods)
        /\ \A j \in 1..Len(puzzle.col_prods) :
              /\ ~stack[k].col_prods[j].frac
              /\ TimesAll(Exact(stack[k].col_prods[j]), [i \in 1..(k - 1) |-> CommittedRow(i)[j]])
                    = Exact(puzzle.col_prods[j])

\* C11: the tables solutions yields are pairwise different, and a fully
\* consumed solutions yields as many tables as the puzzle has solutions:
\* 4 for row and column targets [8, 8, 1], 2 for row and column targets
\* [7, 7].
NoDuplicates(q) == \A a, b \in 1..Len(q) : q[a] = q[b] => a = b

C11_EachSolutionOnce ==
    /\ NoDuplicates(Tables(got))
    /\ ret.op = "list" =>
          /\ NoDuplicates(ret.all)
          /\ Len(ret.all) = Cardinality(ValidTables(puzzle))
          /\ puzzle = Puzzle(Ints(<<8, 8, 1>>), Ints(<<8, 8, 1>>)) => Len(ret.all) = 4
          /\ puzzle = Puzzle(Ints(<<7, 7>>), Ints(<<7, 7>>)) => Len(ret.all) = 2

\* C12: fill_one_row(7^8, [7] * 9), with nine column targets, is the nine
\* rows that place a single 1 among eight 7s; with eight column targets,
\* fill_one_row(7^8, [7] * 8) is the one row of eight 7s.
SevensWithOne(n) == { [j \in 1..n |-> IF j = k THEN 1 ELSE 7] : k \in 1..n }

FilledFor(n) ==
    /\ stack # <<>>
    /\ stack[1].pc = "iter"
    /\ stack[1].row_prods = <<FromInt(7^8)>>
    /\ Len(stack[1].col_prods) = n

C12_NineColumns ==
    /\ FilledFor(9) => /\ Len(stack[1].rows) = 9
                      /\ Range(stack[1].rows) = SevensWithOne(9)
    /\ FilledFor(8) => stack[1].rows = << [j \in 1..8 |-> 7] >>

C12_Witness == FilledFor(9) /\ Len(stack[1].rows) = 9 /\ stack[1].i = 9

\* C12 as stated: with eight column targets of 7 there are 9 rows, each with
\* a single digit other than 7.
C12_EightColumns ==
    FilledFor(8) =>
        /\ Len(stack[1].rows) = 9
        /\ \A k \in 1..Len(stack[1].rows) :
              Cardinality({ j \in 1..8 : stack[1].rows[k][j] # 7 }) = 1

\* C13: solve pulls at most one table and well_formed at most two; when
\* either has returned after a yield, the generator is left suspended at
\* the yield of the last table pulled, and while no consumer waits in
\* next() no generator takes a step: the stack only changes when a new
\* call makes a fresh generator.
SuspendedAt(t) ==
    /\ ~exhausted
    /\ stack # <<>>
    /\ top.pc = "yielded"
    /\ YieldedTable = t

PullsBounded ==
    /\ op = "solve" => got = <<>>
    /\ op = "well_formed" => Len(got) <= 1
    /\ ret.op = "solve" => Len(got) = 1
    /\ ret.op = "well_formed" => Len(got) = 2
    /\ ret.op = "solve" /\ ret.val.some => SuspendedAt(ret.val.val)
    /\ ret.op = "well_formed" /\ got[2].some => SuspendedAt(got[2].val)

NoStepWhileIdle ==
    op = "idle" => \/ stack' = stack /\ exhausted' = exhausted /\ got' = got
                   \/ stack' = solutions(puzzle) /\ op' # "idle"

C13_Lazy == []PullsBounded /\ [][NoStepWhileIdle]_vars

C13_Witness ==
    /\ ret.op = "well_formed"
    /\ got[2].some
    /\ SuspendedAt(got[2].val)
    /\ Cardinality(ValidTables(puzzle)) >= 3
    /\ prev.called

\* C14: for positive targets, the calls on Puzzle(R, C) and on Puzzle(C, R)
\* yield the same number of tables; with at least one row and one column
\* the tables of one are the transposes of the tables of the other; and
\* well_formed returns the same on both.
Transposes(q) == { transpose(q[k]) : k \in 1..Len(q) }

C14_TransposeSymmetry ==
    prev.swapped =>
        /\ ret.op = "list" /\ prev.ret.op = "list" =>
              /\ Len(ret.all) = Len(prev.ret.all)
              /\ puzzle.row_prods # <<>> /\ puzzle.col_prods # <<>> =>
                    Range(ret.all) = Transposes(prev.ret.all)
        /\ ret.op = "well_formed" /\ prev.ret.op = "well_formed" =>
              ret.flag = prev.ret.flag

====
